---- MODULE Spec2Model ----
(***************************************************************************)
(* LoreChat: the retrieval store of src/rag_store.py (load_index,          *)
(* save_index, add_to_store, query_store) over its two snapshot files,     *)
(* rag_index.faiss and rag_meta.pkl, used by one or several callers.       *)
(***************************************************************************)
EXTENDS Integers, Sequences, FiniteSets, TLC

\* ------------------------------------------------------------------ bounds
MaxCalls == 3        \* calls of add_to_store / query_store started in a run
MaxChunks == 5       \* chunks the splitter yields for one text
MaxTopK == 3         \* largest top_k a caller passes

\* rag_store.py:17 sets BATCH_SIZE = 32; the model keeps the batching loop and
\* scales the size so that texts of MaxChunks chunks span three batches.
BATCH_SIZE == 2

\* The callers (request handlers of app.py, CLI processes of rag_store.py).
Procs == {1, 2}

\* ------------------------------------------------------------ inputs
\* The passages a splitter can yield, the books of the callers, the queries.
Passages == <<"p1", "p2", "p3">>
Books == <<"bookA", "bookB", "bookC">>
Queries == {"p1", "q"}
\* The top_k values a caller passes: the smallest and the largest.
TopKs == {1, MaxTopK}

\* Chunk counts of the texts handed to add_to_store: an empty split, one
\* full batch, and MaxChunks chunks (several batches).
ChunkCounts == {0, BATCH_SIZE, MaxChunks}

SENTINEL == "Knowledge base is empty. Please upload a book."

\* embedding_model.encode on one text: a fixed deterministic vector per text.
\* The query "q" is as far from "p2" as from "p3" (a tie in the search).
EncodeOne(t) ==
    CASE t = "p1" -> <<0, 0>>
      [] t = "p2" -> <<1, 0>>
      [] t = "p3" -> <<0, 1>>
      [] OTHER -> <<2, 2>>

\* embedding_model.encode on a batch: one vector per text, in order.
Encode(batch) == [k \in 1..Len(batch) |-> EncodeOne(batch[k])]

\* splitter.split_text(raw_text) for the n-chunk text of a caller: the
\* chunks in order (the empty sequence for an empty or blank text).
SplitText(n) == [k \in 1..n |-> Passages[((k - 1) % Len(Passages)) + 1]]

\* A file: absent, or present with its contents.
Absent == [exists |-> FALSE, data |-> <<>>]
Present(d) == [exists |-> TRUE, data |-> d]

VARIABLES
    indexFile,   \* INDEX_FILE: the serialized index (sequence of vectors)
    metaFile,    \* META_FILE: the pickled metadata (sequence of <<book_name, text>>)
    pc,          \* each caller's position in its call
    op,          \* the call a caller is in or has ended: "none", "add", "query"
    index,       \* local `index` of the call (its vectors, position order)
    metadata,    \* local `metadata` of the call
    chunks,      \* local `chunks` of add_to_store
    book_name,   \* book_name of add_to_store
    i,           \* loop variable of the batch loop
    query,       \* query of query_store
    top_k,       \* top_k of query_store
    ret,         \* how the call ended: "none", "True", "False", "list", "raised", "killed"
    results,     \* the list query_store returned
    pre,         \* the two files as they were when the call started
    calls,       \* calls started so far
    last,        \* the caller that started the most recent call (0: none yet)
    prev,        \* the caller that started the call before the most recent one
    saves,       \* for each caller, the save_index calls its call has begun
    session,     \* the Flask session of one browser: a function from its keys
    under,       \* for each entry of session["chat_history"], the character it was exchanged under
    before,      \* the session as it was before the most recent /chat request
    response     \* how the most recent /chat request ended: "none", "ok", "KeyError", "error"

vars == <<indexFile, metaFile, pc, op, index, metadata, chunks, book_name, i,
          query, top_k, ret, results, pre, calls, last, prev, saves,
          session, under, before, response>>

store == <<indexFile, metaFile, pc, op, index, metadata, chunks, book_name, i,
           query, top_k, ret, results, pre, calls, last, prev, saves>>

chat == <<session, under, before, response>>

\* A session without keys: the first request of a browser.
NewSession == [k \in {} |-> ""]

locals == <<index, metadata, chunks, book_name, i, query, top_k>>

Running == {"load_meta", "batch", "save_index", "save_meta", "encode_query"}

Init ==
    /\ indexFile = Absent
    /\ metaFile = Absent
    /\ pc = [p \in Procs |-> "idle"]
    /\ op = [p \in Procs |-> "none"]
    /\ index = [p \in Procs |-> <<>>]
    /\ metadata = [p \in Procs |-> <<>>]
    /\ chunks = [p \in Procs |-> <<>>]
    /\ book_name = [p \in Procs |-> ""]
    /\ i = [p \in Procs |-> 0]
    /\ query = [p \in Procs |-> ""]
    /\ top_k = [p \in Procs |-> 0]
    /\ ret = [p \in Procs |-> "none"]
    /\ results = [p \in Procs |-> <<>>]
    /\ pre = [p \in Procs |-> [index |-> Absent, meta |-> Absent]]
    /\ calls = 0
    /\ last = 0
    /\ prev = 0
    /\ saves = [p \in Procs |-> 0]
    /\ session = NewSession
    /\ under = <<>>
    /\ before = NewSession
    /\ response = "none"

\* ------------------------------------------------------ pure functions
Min(a, b) == IF a < b THEN a ELSE b

\* chunks[i:i + BATCH_SIZE] (a Python slice, i counted from 0)
BatchChunks(cs, k) == SubSeq(cs, k + 1, Min(k + BATCH_SIZE, Len(cs)))

\* Mutant of BatchMeta: one pair per batch instead of one per chunk.
BatchMetaOnePair(b, batch) == <<<<b, batch[1]>>>>

\* [(book_name, c) for c in batch_chunks]
BatchMeta(b, batch) == [k \in 1..Len(batch) |-> <<b, batch[k]>>]

\* load_index's test: os.path.exists(INDEX_FILE) and os.path.exists(META_FILE)
BothExist == indexFile.exists /\ metaFile.exists

\* Squared L2 distance of two vectors of the model's dimension.
Dist2(u, v) == (u[1] - v[1]) * (u[1] - v[1]) + (u[2] - v[2]) * (u[2] - v[2])

\* Mutant of Before: equal distances resolved by the higher position.
BeforeTiesByHigher(xb, xq, a, b) ==
    \/ Dist2(xb[a + 1], xq) < Dist2(xb[b + 1], xq)
    \/ Dist2(xb[a + 1], xq) = Dist2(xb[b + 1], xq) /\ a > b

\* Position a (0-based) comes before position b in the search order of
\* IndexFlatL2: smaller distance first, equal distances by lower position.
Before(xb, xq, a, b) ==
    \/ Dist2(xb[a + 1], xq) < Dist2(xb[b + 1], xq)
    \/ Dist2(xb[a + 1], xq) = Dist2(xb[b + 1], xq) /\ a < b

Rank(xb, xq, a) == Cardinality({b \in 0..(Len(xb) - 1) : Before(xb, xq, b, a)})

\* index.search(q_emb, top_k)[1][0]: top_k labels, 0-based positions in
\* search order, filled with -1 where the index has fewer than top_k vectors.
Search(xb, xq, k) ==
    [r \in 1..k |->
        IF r <= Len(xb)
        THEN CHOOSE a \in 0..(Len(xb) - 1) : Rank(xb, xq, a) = r - 1
        ELSE -1]

\* metadata[idx] for a Python list: negative idx counts from the end.
PyInRange(md, idx) == idx >= 0 - Len(md) /\ idx < Len(md)
PyItem(md, idx) == IF idx >= 0 THEN md[idx + 1] ELSE md[Len(md) + idx + 1]

\* query_store's guard on a label
Keep(md, idx) == idx < Len(md)

\* The loop of query_store over the labels: the texts appended, and whether
\* metadata[idx] raised IndexError.
RECURSIVE Collect(_, _)
Collect(md, labels) ==
    IF labels = <<>> THEN [raised |-> FALSE, texts |-> <<>>]
    ELSE IF ~Keep(md, Head(labels)) THEN Collect(md, Tail(labels))
    ELSE IF ~PyInRange(md, Head(labels)) THEN [raised |-> TRUE, texts |-> <<>>]
    ELSE LET rest == Collect(md, Tail(labels))
         IN  [raised |-> rest.raised,
              texts |-> IF rest.raised THEN <<>>
                        ELSE <<PyItem(md, Head(labels))[2]>> \o rest.texts]

\* ---------------------------------------------------------- actions
Ended(p) == pc[p] \in {"idle", "done"}

\* No other caller is inside a call.
Alone(p) == \A o \in Procs \ {p} : Ended(o)

\* Mutant of AfterLoadAdd: the `if not chunks` test is missing, an empty
\* split goes on to save_index.
AfterLoadAddNoTest(p, cs) ==
    /\ pc' = [pc EXCEPT ![p] = IF cs = <<>> THEN "save_index" ELSE "batch"]
    /\ ret' = [ret EXCEPT ![p] = "none"]

\* What add_to_store does once load_index has returned (lines 65-72).
AfterLoadAdd(p, cs) ==
    IF cs = <<>>
    THEN /\ pc' = [pc EXCEPT ![p] = "done"]
         /\ ret' = [ret EXCEPT ![p] = "False"]
    ELSE /\ pc' = [pc EXCEPT ![p] = "batch"]
         /\ ret' = [ret EXCEPT ![p] = "none"]

\* Mutant of AfterLoadQuery: the `index.ntotal == 0` test is missing.
AfterLoadQueryNoTest(p, idx) ==
    /\ pc' = [pc EXCEPT ![p] = "encode_query"]
    /\ ret' = [ret EXCEPT ![p] = "none"]
    /\ results' = [results EXCEPT ![p] = <<>>]

\* What query_store does once load_index has returned (lines 91-92).
AfterLoadQuery(p, idx) ==
    IF Len(idx) = 0
    THEN /\ pc' = [pc EXCEPT ![p] = "done"]
         /\ ret' = [ret EXCEPT ![p] = "list"]
         /\ results' = [results EXCEPT ![p] = <<SENTINEL>>]
    ELSE /\ pc' = [pc EXCEPT ![p] = "encode_query"]
         /\ ret' = [ret EXCEPT ![p] = "none"]
         /\ results' = [results EXCEPT ![p] = <<>>]

\* add_to_store is called on a text of n chunks; load_index tests the two
\* files and reads the index file, or builds the empty pair.
AddStart(p, n) ==
    /\ Ended(p)
    /\ calls < MaxCalls
    /\ calls' = calls + 1
    /\ last' = p
    /\ prev' = last
    /\ saves' = [saves EXCEPT ![p] = 0]
    /\ op' = [op EXCEPT ![p] = "add"]
    /\ chunks' = [chunks EXCEPT ![p] = SplitText(n)]
    /\ book_name' = [book_name EXCEPT ![p] = Books[p]]
    /\ i' = [i EXCEPT ![p] = 0]
    /\ query' = [query EXCEPT ![p] = ""]
    /\ top_k' = [top_k EXCEPT ![p] = 0]
    /\ results' = [results EXCEPT ![p] = <<>>]
    /\ pre' = [pre EXCEPT ![p] = [index |-> indexFile, meta |-> metaFile]]
    /\ metadata' = [metadata EXCEPT ![p] = <<>>]
    /\ IF BothExist
       THEN /\ index' = [index EXCEPT ![p] = indexFile.data]
            /\ pc' = [pc EXCEPT ![p] = "load_meta"]
            /\ ret' = [ret EXCEPT ![p] = "none"]
       ELSE /\ index' = [index EXCEPT ![p] = <<>>]
            /\ AfterLoadAdd(p, SplitText(n))
    /\ UNCHANGED <<indexFile, metaFile>>
    /\ UNCHANGED chat

\* query_store is called; load_index as in AddStart.
QueryStart(p, q, k) ==
    /\ Ended(p)
    /\ calls < MaxCalls
    /\ calls' = calls + 1
    /\ last' = p
    /\ prev' = last
    /\ saves' = [saves EXCEPT ![p] = 0]
    /\ op' = [op EXCEPT ![p] = "query"]
    /\ chunks' = [chunks EXCEPT ![p] = <<>>]
    /\ book_name' = [book_name EXCEPT ![p] = ""]
    /\ i' = [i EXCEPT ![p] = 0]
    /\ query' = [query EXCEPT ![p] = q]
    /\ top_k' = [top_k EXCEPT ![p] = k]
    /\ pre' = [pre EXCEPT ![p] = [index |-> indexFile, meta |-> metaFile]]
    /\ metadata' = [metadata EXCEPT ![p] = <<>>]
    /\ IF BothExist
       THEN /\ index' = [index EXCEPT ![p] = indexFile.data]
            /\ pc' = [pc EXCEPT ![p] = "load_meta"]
            /\ ret' = [ret EXCEPT ![p] = "none"]
            /\ results' = [results EXCEPT ![p] = <<>>]
       ELSE /\ index' = [index EXCEPT ![p] = <<>>]
            /\ AfterLoadQuery(p, <<>>)
    /\ UNCHANGED <<indexFile, metaFile>>
    /\ UNCHANGED chat

\* Mutant of LoadMeta: the index file is read (again) at the time the
\* metadata file is read, not when the two files were tested.
LoadMetaRereadsIndex(p) ==
    /\ pc[p] = "load_meta"
    /\ index' = [index EXCEPT ![p] = indexFile.data]
    /\ metadata' = [metadata EXCEPT ![p] = metaFile.data]
    /\ IF op[p] = "add"
       THEN AfterLoadAdd(p, chunks[p]) /\ UNCHANGED results
       ELSE AfterLoadQuery(p, indexFile.data)
    /\ UNCHANGED <<indexFile, metaFile, op, chunks, book_name, i, query,
                   top_k, pre, calls, last, prev, saves>>
    /\ UNCHANGED chat

\* load_index reads the metadata file and returns (lines 25-27).
LoadMeta(p) ==
    /\ pc[p] = "load_meta"
    /\ metadata' = [metadata EXCEPT ![p] = metaFile.data]
    /\ IF op[p] = "add"
       THEN AfterLoadAdd(p, chunks[p]) /\ UNCHANGED results
       ELSE AfterLoadQuery(p, index[p])
    /\ UNCHANGED <<indexFile, metaFile, op, index, chunks, book_name, i, query,
                   top_k, pre, calls, last, prev, saves>>
    /\ UNCHANGED chat

\* Mutant of Batch: save_index is called in every pass of the loop (the
\* call indented into the loop body).
BatchSavesEach(p) ==
    /\ pc[p] = "batch"
    /\ LET batch_chunks == BatchChunks(chunks[p], i[p])
       IN  /\ index' = [index EXCEPT ![p] = @ \o Encode(batch_chunks)]
           /\ metadata' = [metadata EXCEPT ![p] = @ \o BatchMeta(book_name[p], batch_chunks)]
    /\ indexFile' = Present(index'[p])
    /\ metaFile' = Present(metadata'[p])
    /\ saves' = [saves EXCEPT ![p] = @ + 1]
    /\ i' = [i EXCEPT ![p] = @ + BATCH_SIZE]
    /\ pc' = [pc EXCEPT ![p] = IF i[p] + BATCH_SIZE < Len(chunks[p])
                               THEN "batch" ELSE "done"]
    /\ ret' = [ret EXCEPT ![p] = IF i[p] + BATCH_SIZE < Len(chunks[p])
                                 THEN "none" ELSE "True"]
    /\ UNCHANGED <<op, chunks, book_name, query, top_k, results, pre, calls,
                   last, prev>>
    /\ UNCHANGED chat

\* One pass of the batch loop: encode, index.add, metadata.extend.
Batch(p) ==
    /\ pc[p] = "batch"
    /\ LET batch_chunks == BatchChunks(chunks[p], i[p])
       IN  /\ index' = [index EXCEPT ![p] = @ \o Encode(batch_chunks)]
           /\ metadata' = [metadata EXCEPT ![p] = @ \o BatchMeta(book_name[p], batch_chunks)]
    /\ i' = [i EXCEPT ![p] = @ + BATCH_SIZE]
    /\ pc' = [pc EXCEPT ![p] = IF i[p] + BATCH_SIZE < Len(chunks[p])
                               THEN "batch" ELSE "save_index"]
    /\ UNCHANGED <<indexFile, metaFile, op, chunks, book_name, query, top_k, ret,
                   results, pre, calls, last, prev, saves>>
    /\ UNCHANGED chat

\* Mutant of AddEncodeFail: the batches embedded so far are saved when
\* encode raises (a save in a `finally`).
AddEncodeFailSaves(p) ==
    /\ pc[p] = "batch"
    /\ pc' = [pc EXCEPT ![p] = "done"]
    /\ ret' = [ret EXCEPT ![p] = "raised"]
    /\ indexFile' = Present(index[p])
    /\ metaFile' = Present(metadata[p])
    /\ UNCHANGED <<op, locals, results, pre, calls, last, prev, saves>>
    /\ UNCHANGED chat

\* embedding_model.encode raises on the batch at hand: add_to_store ends
\* with the exception, before save_index.
AddEncodeFail(p) ==
    /\ pc[p] = "batch"
    /\ pc' = [pc EXCEPT ![p] = "done"]
    /\ ret' = [ret EXCEPT ![p] = "raised"]
    /\ UNCHANGED <<indexFile, metaFile, op, locals, results, pre, calls, last, prev, saves>>
    /\ UNCHANGED chat

\* save_index, first write: faiss.write_index(index, INDEX_FILE)
SaveIndex(p) ==
    /\ pc[p] = "save_index"
    /\ indexFile' = Present(index[p])
    /\ saves' = [saves EXCEPT ![p] = @ + 1]
    /\ pc' = [pc EXCEPT ![p] = "save_meta"]
    /\ UNCHANGED <<metaFile, op, locals, ret, results, pre, calls, last, prev>>
    /\ UNCHANGED chat

\* Mutant of SaveMeta: the metadata is appended to the file's contents
\* (the file opened in append mode) instead of replacing them.
SaveMetaAppends(p) ==
    /\ pc[p] = "save_meta"
    /\ metaFile' = Present(metaFile.data \o metadata[p])
    /\ pc' = [pc EXCEPT ![p] = "done"]
    /\ ret' = [ret EXCEPT ![p] = "True"]
    /\ UNCHANGED <<indexFile, op, locals, results, pre, calls, last, prev, saves>>
    /\ UNCHANGED chat

\* save_index, second write: pickle.dump(metadata, f); add_to_store
\* returns True.
SaveMeta(p) ==
    /\ pc[p] = "save_meta"
    /\ metaFile' = Present(metadata[p])
    /\ pc' = [pc EXCEPT ![p] = "done"]
    /\ ret' = [ret EXCEPT ![p] = "True"]
    /\ UNCHANGED <<indexFile, op, locals, results, pre, calls, last, prev, saves>>
    /\ UNCHANGED chat

\* Mutant of QueryEncode: query_store adds the query's vector to the index
\* and writes the index file (index.add in place of index.search's input).
QueryEncodeAddsQuery(p) ==
    /\ pc[p] = "encode_query"
    /\ LET got == Collect(metadata[p],
                          Search(index[p], EncodeOne(query[p]), top_k[p]))
       IN  /\ ret' = [ret EXCEPT ![p] = IF got.raised THEN "raised" ELSE "list"]
           /\ results' = [results EXCEPT ![p] = got.texts]
    /\ pc' = [pc EXCEPT ![p] = "done"]
    /\ indexFile' = Present(index[p] \o <<EncodeOne(query[p])>>)
    /\ UNCHANGED <<metaFile, op, locals, pre, calls, last, prev, saves>>
    /\ UNCHANGED chat

\* Mutant of QueryEncode: query_store saves the pair it loaded before it
\* returns.
QueryEncodeSaves(p) ==
    /\ pc[p] = "encode_query"
    /\ LET got == Collect(metadata[p],
                          Search(index[p], EncodeOne(query[p]), top_k[p]))
       IN  /\ ret' = [ret EXCEPT ![p] = IF got.raised THEN "raised" ELSE "list"]
           /\ results' = [results EXCEPT ![p] = got.texts]
    /\ pc' = [pc EXCEPT ![p] = "done"]
    /\ indexFile' = Present(index[p])
    /\ metaFile' = Present(metadata[p])
    /\ UNCHANGED <<op, locals, pre, calls, last, prev, saves>>
    /\ UNCHANGED chat

\* query_store encodes the query, searches and maps the labels (94-100).
QueryEncode(p) ==
    /\ pc[p] = "encode_query"
    /\ LET got == Collect(metadata[p],
                          Search(index[p], EncodeOne(query[p]), top_k[p]))
       IN  /\ ret' = [ret EXCEPT ![p] = IF got.raised THEN "raised" ELSE "list"]
           /\ results' = [results EXCEPT ![p] = got.texts]
    /\ pc' = [pc EXCEPT ![p] = "done"]
    /\ UNCHANGED <<indexFile, metaFile, op, locals, pre, calls, last, prev, saves>>
    /\ UNCHANGED chat

\* embedding_model.encode raises on the query.
QueryEncodeFail(p) ==
    /\ pc[p] = "encode_query"
    /\ pc' = [pc EXCEPT ![p] = "done"]
    /\ ret' = [ret EXCEPT ![p] = "raised"]
    /\ UNCHANGED <<indexFile, metaFile, op, locals, results, pre, calls, last, prev, saves>>
    /\ UNCHANGED chat

\* The process running the call stops (killed, power loss): the call's
\* memory is gone, the files stay as they are.
Stop(p) ==
    /\ pc[p] \in Running
    /\ pc' = [pc EXCEPT ![p] = "done"]
    /\ ret' = [ret EXCEPT ![p] = "killed"]
    /\ index' = [index EXCEPT ![p] = <<>>]
    /\ metadata' = [metadata EXCEPT ![p] = <<>>]
    /\ chunks' = [chunks EXCEPT ![p] = <<>>]
    /\ i' = [i EXCEPT ![p] = 0]
    /\ book_name' = [book_name EXCEPT ![p] = ""]
    /\ query' = [query EXCEPT ![p] = ""]
    /\ top_k' = [top_k EXCEPT ![p] = 0]
    /\ UNCHANGED <<indexFile, metaFile, op, results, pre, calls, last, prev,
                   saves>>
    /\ UNCHANGED chat

\* A step inside a call that is under way.
Step(p) ==
    \/ LoadMeta(p)
    \/ Batch(p)
    \/ AddEncodeFail(p)
    \/ SaveIndex(p)
    \/ SaveMeta(p)
    \/ QueryEncode(p)
    \/ QueryEncodeFail(p)

\* ------------------------------------------------------ specifications
\* The code as it is: callers are not serialized (no lock in rag_store.py
\* or app.py), and a process can stop at any point.
Next ==
    \E p \in Procs :
        \/ \E n \in ChunkCounts : AddStart(p, n)
        \/ \E q \in Queries, k \in TopKs : QueryStart(p, q, k)
        \/ Step(p)
        \/ Stop(p)

Spec == Init /\ [][Next]_vars

\* One call at a time (the single-writer discipline of the callers), a
\* process can stop at any point.
NextSolo ==
    \E p \in Procs :
        \/ \E n \in ChunkCounts : Alone(p) /\ AddStart(p, n)
        \/ \E q \in Queries, k \in TopKs : Alone(p) /\ QueryStart(p, q, k)
        \/ Step(p)
        \/ Stop(p)

SpecSolo == Init /\ [][NextSolo]_vars

\* One call at a time, every call runs to completion (returns or raises).
NextSeq ==
    \E p \in Procs :
        \/ \E n \in ChunkCounts : Alone(p) /\ AddStart(p, n)
        \/ \E q \in Queries, k \in TopKs : Alone(p) /\ QueryStart(p, q, k)
        \/ Step(p)

SpecSeq == Init /\ [][NextSeq]_vars

\* ------------------------------------------------ /chat (src/app.py)
\* The slice of chat_post: session["chat_history"] = chat_history[-5:].
HISTORY_KEEP == 5

\* request's "character" field after strip(): absent or blank, or a name.
Characters == {"", "Harry", "Snape"}

\* request's "user_input" field after strip().
UserInputs == {"", "hi", "bye"}

\* bot_reply of chat_post, from the model or simulated.
Replies == {"reply"}

\* session.get(k, d)
Get(s, k, d) == IF k \in DOMAIN s THEN s[k] ELSE d

\* session[k] = v
Set(s, k, v) == [x \in DOMAIN s \cup {k} |-> IF x = k THEN v ELSE s[x]]

\* h[-n:] of a Python list
LastN(h, n) == IF Len(h) <= n THEN h ELSE SubSeq(h, Len(h) - n + 1, Len(h))

\* The characters of the entries that remain in history h.
Tags(u, h) == IF h = <<>> THEN <<>> ELSE u

\* Mutant of SelectCharacter: the character is set and the conversation
\* is kept.
SelectCharacterKeepsHistory(s, new_character) ==
    IF new_character # "" /\ new_character # Get(s, "character", "")
    THEN Set(s, "character", new_character)
    ELSE s

\* Both handlers: a new character different from the session's is stored
\* and the conversation is cleared.
SelectCharacter(s, new_character) ==
    IF new_character # "" /\ new_character # Get(s, "character", "")
    THEN Set(Set(s, "character", new_character), "chat_history", <<>>)
    ELSE s

\* GET /chat
ChatGet(new_character) ==
    /\ LET s1 == IF "chat_history" \notin DOMAIN session
                 THEN Set(Set(session, "chat_history", <<>>), "character", "")
                 ELSE session
           s2 == SelectCharacter(s1, new_character)
       IN  /\ session' = s2
           /\ under' = Tags(under, Get(s2, "chat_history", <<>>))
    /\ before' = session
    /\ response' = "ok"
    /\ UNCHANGED store

\* POST /chat. query_ok: query_store returned; saved: the session changes
\* of a request that raised are kept (the error response carries the
\* session cookie) or lost (the exception leaves the application, as under
\* app.run(debug=True)).
ChatPost(user_input, new_character, bot_reply, query_ok, saved) ==
    /\ LET s1 == SelectCharacter(session, new_character)
           u1 == Tags(under, Get(s1, "chat_history", <<>>))
           character == Get(s1, "character", "")
       IN  IF user_input = ""
           THEN /\ session' = s1
                /\ under' = u1
                /\ response' = "ok"
           ELSE IF ~query_ok \/ "chat_history" \notin DOMAIN s1
           THEN /\ session' = IF saved THEN s1 ELSE session
                /\ under' = IF saved THEN u1 ELSE under
                /\ response' = IF ~query_ok THEN "error" ELSE "KeyError"
           ELSE LET chat_history == Get(s1, "chat_history", <<>>)
                                    \o << <<"user", user_input>>, <<"bot", bot_reply>> >>
                IN  /\ session' = Set(s1, "chat_history", LastN(chat_history, HISTORY_KEEP))
                    /\ under' = LastN(u1 \o <<character, character>>, HISTORY_KEEP)
                    /\ response' = "ok"
    /\ before' = session
    /\ UNCHANGED store

\* The requests of one browser session, one at a time.
NextChat ==
    \/ \E c \in Characters : ChatGet(c)
    \/ \E u \in UserInputs, c \in Characters, r \in Replies, ok, sv \in BOOLEAN :
          ChatPost(u, c, r, ok, sv)

SpecChat == Init /\ [][NextChat]_vars

\* ------------------------------------------------------------ claims
\* The call of p has passed load_index.
Loaded(p) == pc[p] \in {"batch", "save_index", "save_meta", "encode_query", "done"}

\* No call has started since the call of p did.
Latest(p) == last = p

\* The call of p ended by itself (it returned or raised; it was not stopped).
Finished(p) == pc[p] = "done" /\ ret[p] # "killed"

\* The passages add_to_store of p adds: one pair per chunk, in chunk order.
Added(p) == [k \in 1..Len(chunks[p]) |-> <<book_name[p], chunks[p][k]>>]

IsPrefix(s, t) == Len(s) <= Len(t) /\ SubSeq(t, 1, Len(s)) = s

\* C1: with calls running one at a time to completion from an absent
\* snapshot, the pair load_index returns has len(metadata) = index count,
\* and after save_index returned both files exist with equal lengths.
C1_LoadSaveSameLength ==
    \A p \in Procs :
        /\ Loaded(p) => Len(index[p]) = Len(metadata[p])
        /\ (Latest(p) /\ pc[p] = "done" /\ ret[p] = "True") =>
              /\ indexFile.exists /\ metaFile.exists
              /\ Len(indexFile.data) = Len(metaFile.data)

\* C1 witness: a save on top of a loaded, non-empty snapshot has returned.
C1_Witness ==
    \E p \in Procs :
        /\ Latest(p)
        /\ pc[p] = "done" /\ ret[p] = "True"
        /\ pre[p].index.exists /\ Len(pre[p].index.data) > 0
        /\ Len(metaFile.data) = Len(pre[p].meta.data) + Len(chunks[p])

\* C2: when add_to_store returned True with no other writer running, the
\* index file and the metadata file each grew by the number of chunks of
\* the call, and what was at a position before the call is still there.
C2_AppendOnly ==
    \A p \in Procs :
        (Latest(p) /\ op[p] = "add" /\ pc[p] = "done" /\ ret[p] = "True") =>
            /\ Len(indexFile.data) = Len(pre[p].index.data) + Len(chunks[p])
            /\ Len(metaFile.data) = Len(pre[p].meta.data) + Len(chunks[p])
            /\ IsPrefix(pre[p].index.data, indexFile.data)
            /\ IsPrefix(pre[p].meta.data, metaFile.data)

\* C3: when encode raised in add_to_store, on whichever batch, both files
\* are as they were when the call started.
C3_EncodeFailureLeavesSnapshot ==
    \A p \in Procs :
        (Latest(p) /\ op[p] = "add" /\ pc[p] = "done" /\ ret[p] = "raised") =>
            /\ indexFile = pre[p].index
            /\ metaFile = pre[p].meta

\* C3 witness: encode raised on the last of three batches, on top of a
\* snapshot that existed.
C3_Witness ==
    \E p \in Procs :
        /\ Latest(p)
        /\ op[p] = "add" /\ pc[p] = "done" /\ ret[p] = "raised"
        /\ i[p] >= 2 * BATCH_SIZE
        /\ Len(index[p]) > Len(pre[p].index.data)
        /\ pre[p].index.exists /\ pre[p].meta.exists

\* C4: until save_index has completed the two files are as they were when
\* the call started, and a stopped call leaves an old or a new snapshot,
\* never two files of different lengths.
C4_SaveIsAtomic ==
    \A p \in Procs :
        /\ (Latest(p) /\ op[p] = "add" /\ pc[p] \in Running) =>
              (indexFile = pre[p].index /\ metaFile = pre[p].meta)
        /\ (Latest(p) /\ op[p] = "add" /\ pc[p] = "done" /\ ret[p] = "killed") =>
              /\ indexFile.exists = metaFile.exists
              /\ Len(indexFile.data) = Len(metaFile.data)

\* C5: a call that found exactly one of the two files gets a hard error
\* from load_index: it never goes on with an empty store.
C5_OneFileIsHardError ==
    \A p \in Procs :
        (Latest(p) /\ pre[p].index.exists # pre[p].meta.exists) =>
            (pc[p] = "done" /\ ret[p] \in {"raised", "killed"})

\* C6: a call that found both files, of different lengths, gets an error
\* from load_index: the mismatched pair never reaches the caller.
C6_MismatchIsHardError ==
    \A p \in Procs :
        ( /\ Latest(p) /\ Loaded(p)
          /\ pre[p].index.exists /\ pre[p].meta.exists
          /\ Len(pre[p].index.data) # Len(pre[p].meta.data) ) =>
            (pc[p] = "done" /\ ret[p] \in {"raised", "killed"})

\* Both callers are in add_to_store calls that returned True, started on
\* the same snapshot and each loaded that snapshot.
BothAddedOnSameSnapshot(p, o) ==
    /\ p # o
    /\ op[p] = "add" /\ pc[p] = "done" /\ ret[p] = "True"
    /\ op[o] = "add" /\ pc[o] = "done" /\ ret[o] = "True"
    /\ pre[p] = pre[o]
    /\ metadata[p] = pre[p].meta.data \o Added(p)
    /\ metadata[o] = pre[o].meta.data \o Added(o)

\* C7: two add_to_store calls that loaded the same snapshot and both
\* returned True leave a metadata file that holds the passages of one of
\* them only: the file is what the last save wrote, never the two merged.
C7_LastSaveWins ==
    \A p, o \in Procs :
        BothAddedOnSameSnapshot(p, o) =>
            /\ metaFile.data \in {metadata[p], metadata[o]}
            /\ Len(metaFile.data) < Len(pre[p].meta.data) + Len(chunks[p]) + Len(chunks[o])

\* C7 witness: both calls returned True and no passage of caller o is in
\* either file.
C7_Witness ==
    \E p, o \in Procs :
        /\ BothAddedOnSameSnapshot(p, o)
        /\ metaFile.data = metadata[p]
        /\ indexFile.data = index[p]
        /\ \A k \in 1..Len(metaFile.data) : metaFile.data[k][1] # book_name[o]

\* C8: add_to_store on a text of zero chunks returns False and leaves both
\* files as they were (absent stays absent).
C8_EmptySplitReturnsFalse ==
    \A p \in Procs :
        /\ (op[p] = "add" /\ Loaded(p) /\ ret[p] # "killed" /\ chunks[p] = <<>>) =>
              (pc[p] = "done" /\ ret[p] = "False")
        /\ (Latest(p) /\ op[p] = "add" /\ pc[p] = "done" /\ ret[p] = "False") =>
              /\ chunks[p] = <<>>
              /\ indexFile = pre[p].index
              /\ metaFile = pre[p].meta

\* C8 witness: a False return with no snapshot before or after.
C8_Witness ==
    \E p \in Procs :
        /\ Latest(p)
        /\ op[p] = "add" /\ pc[p] = "done" /\ ret[p] = "False"
        /\ pre[p].index = Absent /\ pre[p].meta = Absent
        /\ indexFile = Absent /\ metaFile = Absent

\* C9: query_store with top_k above the index count, on a non-empty store
\* whose two files agree, returns one text per stored position: as many
\* texts as the index holds vectors, the text of each position once.
C9_AllPassagesOnce ==
    \A p \in Procs :
        ( /\ op[p] = "query" /\ pc[p] = "done" /\ ret[p] = "list"
          /\ Len(index[p]) > 0 /\ Len(index[p]) = Len(metadata[p])
          /\ top_k[p] > Len(index[p]) ) =>
            /\ Len(results[p]) = Len(index[p])
            /\ \E f \in [1..Len(results[p]) -> 1..Len(metadata[p])] :
                  /\ \A a, b \in DOMAIN f : a # b => f[a] # f[b]
                  /\ \A a \in DOMAIN f : results[p][a] = metadata[p][f[a]][2]

\* C10: query_store on an index of count 0 returns the sentinel alone,
\* for every top_k and every query.
C10_EmptyStoreSentinel ==
    \A p \in Procs :
        (op[p] = "query" /\ Finished(p) /\ Len(index[p]) = 0) =>
            (ret[p] = "list" /\ results[p] = <<SENTINEL>>)

\* C10 witness: the sentinel returned for the largest top_k.
C10_Witness ==
    \E p \in Procs :
        /\ op[p] = "query" /\ pc[p] = "done" /\ ret[p] = "list"
        /\ Len(index[p]) = 0
        /\ top_k[p] = MaxTopK
        /\ results[p] = <<SENTINEL>>

\* The squared L2 distance of the query of p to the vector at position a
\* (0-based) of the index p loaded.
QueryDist(p, a) ==
    LET v == index[p][a + 1]
        w == EncodeOne(query[p])
    IN  (v[1] - w[1]) * (v[1] - w[1]) + (v[2] - w[2]) * (v[2] - w[2])

\* The positions that are nearer to the query of p than position a, or as
\* near and lower.
NearerOrLower(p, a) ==
    {b \in 0..(Len(index[p]) - 1) :
        \/ QueryDist(p, b) < QueryDist(p, a)
        \/ QueryDist(p, b) = QueryDist(p, a) /\ b < a}

\* C11: on a non-empty store whose index and metadata agree in length, with
\* top_k not above the index count, query_store returns top_k texts, the
\* j-th being the text of the position that has exactly j - 1 positions
\* nearer to the query (or as near and lower): ascending distance, ties by
\* lower position.
C11_NearestInOrder ==
    \A p \in Procs :
        ( /\ op[p] = "query" /\ pc[p] = "done" /\ ret[p] = "list"
          /\ Len(index[p]) > 0 /\ Len(index[p]) = Len(metadata[p])
          /\ top_k[p] <= Len(index[p]) ) =>
            /\ Len(results[p]) = top_k[p]
            /\ \A j \in 1..top_k[p] :
                  \E a \in 0..(Len(index[p]) - 1) :
                      /\ Cardinality(NearerOrLower(p, a)) = j - 1
                      /\ results[p][j] = metadata[p][a + 1][2]

\* C11 witness: a query with four stored vectors at the same distance, of
\* which top_k = MaxTopK cuts off the highest position.
C11_Witness ==
    \E p \in Procs :
        /\ op[p] = "query" /\ pc[p] = "done" /\ ret[p] = "list"
        /\ Len(index[p]) = Len(metadata[p])
        /\ top_k[p] = MaxTopK /\ top_k[p] < Len(index[p])
        /\ \E a, b \in 0..(Len(index[p]) - 1) :
              /\ a < b
              /\ QueryDist(p, a) = QueryDist(p, b)
              /\ metadata[p][a + 1][2] # metadata[p][b + 1][2]
              /\ Cardinality(NearerOrLower(p, a)) < top_k[p]
              /\ Cardinality(NearerOrLower(p, b)) >= top_k[p]

\* This step is a step of a query_store call of p (its start or a later step).
QueryStepOf(p) ==
    /\ op'[p] = "query"
    /\ \/ calls' # calls /\ last' = p
       \/ pc'[p] # pc[p]

ConsecutiveSameQueries(p, o) ==
    /\ p # o
    /\ last = o /\ prev = p
    /\ op[p] = "query" /\ pc[p] = "done" /\ ret[p] = "list"
    /\ op[o] = "query" /\ pc[o] = "done" /\ ret[o] = "list"
    /\ query[p] = query[o]
    /\ top_k[p] = top_k[o]

\* C13: two consecutive query_store calls with the same query and the same
\* top_k, no add_to_store between them, return the same list in the same
\* order.
C13_SameQuerySameResults ==
    \A p, o \in Procs :
        ConsecutiveSameQueries(p, o) => results[o] = results[p]

\* C13 witness: two such calls on a store of several passages, returning
\* several texts.
C13_Witness ==
    \E p, o \in Procs :
        /\ ConsecutiveSameQueries(p, o)
        /\ Len(index[o]) > 1
        /\ Len(results[o]) > 1
        /\ results[o] = results[p]

\* The two files of a snapshot agree: both absent, or both present with as
\* many vectors as metadata entries.
Coherent(idx, meta) ==
    /\ idx.exists = meta.exists
    /\ Len(idx.data) = Len(meta.data)

\* The query_store call of p holds a loaded pair of different lengths.
TornLoad(p) ==
    /\ op[p] = "query" /\ Loaded(p) /\ ret[p] # "killed"
    /\ Len(index[p]) # Len(metadata[p])

\* C14: a query_store call whose load_index returned an index and a
\* metadata of different lengths read its index when it started, and
\* either the two files disagreed at that moment (it started inside a
\* save_index) or the metadata file was replaced before it was read: one
\* file from the old snapshot, the other from the new.
C14_TornLoadIsOldAndNew ==
    \A p \in Procs :
        TornLoad(p) =>
            /\ index[p] = pre[p].index.data
            /\ \/ ~Coherent(pre[p].index, pre[p].meta)
               \/ metadata[p] # pre[p].meta.data

\* C14 witness: no call was stopped, the files agreed when the query_store
\* call started and agree now, and still the call holds an index and a
\* metadata of different lengths, the metadata being the one a concurrent
\* add_to_store saved.
C14_Witness ==
    \E p, o \in Procs :
        /\ p # o
        /\ TornLoad(p)
        /\ Coherent(pre[p].index, pre[p].meta)
        /\ Coherent(indexFile, metaFile)
        /\ op[o] = "add" /\ pc[o] = "done" /\ ret[o] = "True"
        /\ metadata[p] = metadata[o]
        /\ index[p] # index[o]
        /\ \A q \in Procs : ret[q] # "killed"

\* s ends with t.
IsSuffix(t, s) == Len(t) <= Len(s) /\ SubSeq(s, Len(s) - Len(t) + 1, Len(s)) = t

\* C15: an add_to_store call that returned True has called save_index
\* exactly once; a call that returned False or raised has not called it;
\* and when save_index is called every chunk of the call, the last batch
\* included, has been embedded and appended.
C15_OneSaveAfterLastBatch ==
    \A p \in Procs :
        op[p] = "add" =>
            /\ saves[p] <= 1
            /\ (pc[p] = "done" /\ ret[p] = "True") => saves[p] = 1
            /\ (pc[p] = "done" /\ ret[p] \in {"False", "raised"}) => saves[p] = 0
            /\ pc[p] \in {"load_meta", "batch", "save_index"} => saves[p] = 0
            /\ (saves[p] = 1 /\ ret[p] # "killed") =>
                  /\ i[p] >= Len(chunks[p])
                  /\ IsSuffix(Encode(chunks[p]), index[p])
                  /\ IsSuffix(Added(p), metadata[p])

\* C15 witness: a call on three batches has returned True after one save.
C15_Witness ==
    \E p \in Procs :
        /\ op[p] = "add" /\ pc[p] = "done" /\ ret[p] = "True"
        /\ Len(chunks[p]) > 2 * BATCH_SIZE
        /\ saves[p] = 1
        /\ metaFile.data = metadata[p]

\* The number of chunks the batch loop of p has embedded and appended.
Processed(p) == Min(i[p], Len(chunks[p]))

\* C16: after each completed batch of an add_to_store call the in-memory
\* index count equals the in-memory metadata length, and each position the
\* call has added holds in the index the vector of a chunk and in the
\* metadata the pair (book_name, that chunk), in chunk order.
C16_BatchKeepsAlignment ==
    \A p \in Procs :
        ( /\ op[p] = "add" /\ ret[p] \in {"none", "True"}
          /\ pc[p] \in {"batch", "save_index", "save_meta", "done"}
          /\ Processed(p) > 0 ) =>
            /\ Len(index[p]) = Len(metadata[p])
            /\ \A k \in 1..Processed(p) :
                  LET pos == Len(index[p]) - Processed(p) + k
                  IN  /\ index[p][pos] = EncodeOne(chunks[p][k])
                      /\ pos \in 1..Len(metadata[p])
                      /\ metadata[p][pos] = <<book_name[p], chunks[p][k]>>

\* The labels the search of the finished query of p returned.
Labels(p) == Search(index[p], EncodeOne(query[p]), top_k[p])

\* The labels among s that are positions of md, in order.
RECURSIVE PositionsIn(_, _)
PositionsIn(md, s) ==
    IF s = <<>> THEN <<>>
    ELSE IF Head(s) >= 0 /\ Head(s) < Len(md)
         THEN <<Head(s)>> \o PositionsIn(md, Tail(s))
         ELSE PositionsIn(md, Tail(s))

\* C17: a query_store call on a non-empty index, whatever pair it loaded,
\* reads metadata only at labels that are positions of the metadata
\* (0 <= idx < len(metadata)), raises no IndexError, and returns the texts
\* of the metadata entries at the positions the search returned, in order.
C17_ReadsOnlySearchedPositions ==
    \A p \in Procs :
        ( /\ op[p] = "query" /\ pc[p] = "done" /\ ret[p] = "list"
          /\ Len(index[p]) > 0 ) =>
            /\ \A r \in 1..top_k[p] :
                  Keep(metadata[p], Labels(p)[r]) =>
                      (Labels(p)[r] >= 0 /\ Labels(p)[r] < Len(metadata[p]))
            /\ ~Collect(metadata[p], Labels(p)).raised
            /\ results[p] = [j \in 1..Len(PositionsIn(metadata[p], Labels(p))) |->
                                metadata[p][PositionsIn(metadata[p], Labels(p))[j] + 1][2]]

\* session["chat_history"] and session["character"] as the templates read them.
History == Get(session, "chat_history", <<>>)
Character == Get(session, "character", "")

\* C18: no POST /chat with a non-empty message fails on a missing
\* "chat_history" key of the session, whatever requests came before it,
\* none included.
C18_PostFindsHistory == response # "KeyError"

\* C19: the stored chat_history has at most 5 entries, each exchanged
\* under the session's current character; after a request that changed
\* the character only the exchange of that request is in it.
C19_HistoryOfCurrentCharacter ==
    /\ Len(History) <= HISTORY_KEEP
    /\ Len(under) = Len(History)
    /\ \A j \in 1..Len(under) : under[j] = Character
    /\ Get(before, "character", "") # Character =>
          /\ Character # ""
          /\ Len(History) <= 2
          /\ \A j \in 1..Len(History) :
                History[j][1] = (IF j = 1 THEN "user" ELSE "bot")

\* C19 witness: a POST /chat on a full history of one character named
\* another character and carried a message: the history is that exchange.
C19_Witness ==
    /\ Len(Get(before, "chat_history", <<>>)) = HISTORY_KEEP
    /\ Get(before, "character", "") \notin {"", Character}
    /\ Len(History) = 2
    /\ under = <<Character, Character>>
    /\ response = "ok"

====
